---- MODULE Spec2Model ----
(***************************************************************************)
(* Model of the Result container, the runCatching / runAsyncCatching       *)
(* wrappers, the error utilities and the DynamoDB wrapper of oid4vc-core.  *)
(*                                                                         *)
(* JavaScript values are records [k, n, s]: k is the typeof-like kind, n   *)
(* the number (or the heap address of an object), s the text of a string.  *)
(* Objects live in `heap`, so that identity (===) is equality of address.  *)
(***************************************************************************)
EXTENDS Integers, Sequences, FiniteSets, TLC

VARIABLES heap, last, tasks, table, ops

vars == <<heap, last, tasks, table, ops>>

\* the state of the table store and of the calls of DynamoDB in flight
store == <<table, ops>>

-----------------------------------------------------------------------------
(* Bounds *)

\* the largest number of objects the heap may hold
MaxHeap == 6

\* the largest number of independent runAsyncCatching calls made side by side
MaxConcurrent == 2

\* the most objects the error utilities may have made before a further call
MaxMade == 2

\* the largest number of asynchronous calls in flight at once
MaxTasks == 1

-----------------------------------------------------------------------------
(* JavaScript values *)

Undefined == [k |-> "undefined", n |-> 0, s |-> ""]
Null == [k |-> "null", n |-> 0, s |-> ""]
NaN == [k |-> "nan", n |-> 0, s |-> ""]
Fn == [k |-> "function", n |-> 0, s |-> ""]
BigInt == [k |-> "bigint", n |-> 0, s |-> ""]
Str(s) == [k |-> "string", n |-> 0, s |-> s]
Num(n) == [k |-> "number", n |-> n, s |-> ""]
Bool(b) == [k |-> "boolean", n |-> (IF b THEN 1 ELSE 0), s |-> ""]
Ref(a) == [k |-> "object", n |-> a, s |-> ""]

Prop(key, v) == [key |-> key, val |-> v]

PlainObject(props) ==
    [cls |-> "Object", message |-> "", value |-> Undefined, error |-> Undefined,
     props |-> props]
ArrayObject(elems) ==
    [cls |-> "Array", message |-> "", value |-> Undefined, error |-> Undefined,
     props |-> [i \in 1..Len(elems) |-> Prop("", elems[i])]]
ErrorObject(message) ==
    [cls |-> "Error", message |-> message, value |-> Undefined, error |-> Undefined,
     props |-> <<>>]
ResultObject(value, error) ==
    [cls |-> "Result", message |-> "", value |-> value, error |-> error,
     props |-> <<>>]

IsObject(v) == v.k = "object"
InstanceOf(h, v, cls) == IsObject(v) /\ h[v.n].cls = cls

\* ToBoolean, as the && of the constructor applies it
Truthy(v) ==
    CASE v.k \in {"undefined", "null", "nan"} -> FALSE
      [] v.k = "string" -> v.s # ""
      [] v.k \in {"number", "bigint", "boolean"} -> v.n # 0
      [] OTHER -> TRUE

-----------------------------------------------------------------------------
(* Completions: how a call ends, the heap it leaves, the callback calls it made *)

Return(h, v, calls) == [kind |-> "return", val |-> v, h |-> h, calls |-> calls]
Throw(h, v, calls) == [kind |-> "throw", val |-> v, h |-> h, calls |-> calls]

\* new Error(message), new TypeError(message): a fresh object
NewError(h, message) == Append(h, ErrorObject(message))

-----------------------------------------------------------------------------
(* JSON.stringify *)

JsonString(s) == [r |-> "string", s |-> s]
JsonUndefined == [r |-> "undefined", s |-> ""]
JsonThrow(s) == [r |-> "throw", s |-> s]

CircularMessage == "Converting circular structure to JSON"
BigIntMessage == "Do not know how to serialize a BigInt"

\* the enumerable own properties JSON.stringify walks
EnumerableProps(o) ==
    CASE o.cls = "Error" -> <<>>
      [] o.cls = "Result" -> <<Prop("value", o.value), Prop("error", o.error)>>
      [] OTHER -> o.props

RECURSIVE Serialize(_, _, _), SerializeMembers(_, _, _, _, _)

Serialize(h, v, stack) ==
    CASE v.k \in {"undefined", "function"} -> JsonUndefined
      [] v.k \in {"null", "nan"} -> JsonString("null")
      [] v.k = "number" -> JsonString(ToString(v.n))
      [] v.k = "boolean" -> JsonString(IF v.n = 1 THEN "true" ELSE "false")
      [] v.k = "string" -> JsonString(ToString(v.s))
      [] v.k = "bigint" -> JsonThrow(BigIntMessage)
      [] OTHER ->
            IF v.n \in stack
            THEN JsonThrow(CircularMessage)
            ELSE LET o == h[v.n]
                     isArray == o.cls = "Array"
                     m == SerializeMembers(h, EnumerableProps(o), 1,
                                           stack \cup {v.n}, isArray)
                 IN  IF m.r = "throw" THEN m
                     ELSE IF isArray THEN JsonString("[" \o m.s \o "]")
                     ELSE JsonString("{" \o m.s \o "}")

SerializeMembers(h, props, i, stack, isArray) ==
    IF i > Len(props) THEN JsonString("")
    ELSE LET cur == Serialize(h, props[i].val, stack)
         IN  IF cur.r = "throw" THEN cur
             ELSE LET rest == SerializeMembers(h, props, i + 1, stack, isArray)
                      omitted == cur.r = "undefined" /\ ~isArray
                      piece == IF isArray
                               THEN (IF cur.r = "undefined" THEN "null" ELSE cur.s)
                               ELSE ToString(props[i].key) \o ":" \o cur.s
                  IN  IF rest.r = "throw" THEN rest
                      ELSE IF omitted THEN rest
                      ELSE IF rest.s = "" THEN JsonString(piece)
                      ELSE JsonString(piece \o "," \o rest.s)

JSONstringify(h, v) == Serialize(h, v, {})

-----------------------------------------------------------------------------
(* errorUtils *)

\* mutant: a value JSON.stringify rejects is described instead of raising
getErrorMessage_Swallow(h, e) ==
    IF e = Undefined THEN JsonString("undefined")
    ELSE IF e = Null THEN JsonString("null")
    ELSE IF e.k = "string" THEN JsonString(e.s)
    ELSE IF InstanceOf(h, e, "Error") THEN JsonString(h[e.n].message)
    ELSE IF JSONstringify(h, e).r = "throw" THEN JsonString("[object Object]")
    ELSE JSONstringify(h, e)

getErrorMessage(h, e) ==
    IF e = Undefined THEN JsonString("undefined")
    ELSE IF e = Null THEN JsonString("null")
    ELSE IF e.k = "string" THEN JsonString(e.s)
    ELSE IF InstanceOf(h, e, "Error") THEN JsonString(h[e.n].message)
    ELSE JSONstringify(h, e)

\* a call of getErrorMessage as its caller sees it: the string (or undefined)
\* it returns, or the TypeError of JSON.stringify it lets through
getErrorMessageCall(h, e) ==
    LET m == getErrorMessage(h, e)
    IN  IF m.r = "throw" THEN Throw(NewError(h, m.s), Ref(Len(h) + 1), <<>>)
        ELSE IF m.r = "undefined" THEN Return(h, Undefined, <<>>)
        ELSE Return(h, Str(m.s), <<>>)

\* mutant: a new error made from the message whatever the value is
convertToError_AlwaysNew(h, e) ==
    LET m == getErrorMessage(h, e)
    IN  IF m.r = "throw"
        THEN Throw(NewError(h, m.s), Ref(Len(h) + 1), <<>>)
        ELSE Return(NewError(h, IF m.r = "undefined" THEN "" ELSE m.s),
                    Ref(Len(h) + 1), <<>>)

\* new Error(undefined) leaves the message empty
convertToError(h, e) ==
    IF InstanceOf(h, e, "Error") THEN Return(h, e, <<>>)
    ELSE LET m == getErrorMessage(h, e)
         IN  IF m.r = "throw"
             THEN Throw(NewError(h, m.s), Ref(Len(h) + 1), <<>>)
             ELSE Return(NewError(h, IF m.r = "undefined" THEN "" ELSE m.s),
                         Ref(Len(h) + 1), <<>>)

-----------------------------------------------------------------------------
(* Callbacks: what a function passed to the library does when it is called *)

Returns(v) == [b |-> "return", v |-> v]
Throws(v) == [b |-> "throw", v |-> v]
ReturnsArg == [b |-> "returnArg", v |-> Undefined]
ThrowsArg == [b |-> "throwArg", v |-> Undefined]
NoCallback == [b |-> "none", v |-> Undefined]

FirstArg(args) == IF Len(args) > 0 THEN args[1] ELSE Undefined

\* f(...args)
Invoke(h, f, args) ==
    CASE f.b = "return" -> Return(h, f.v, <<args>>)
      [] f.b = "throw" -> Throw(h, f.v, <<args>>)
      [] f.b = "returnArg" -> Return(h, FirstArg(args), <<args>>)
      [] OTHER -> Throw(h, FirstArg(args), <<args>>)

-----------------------------------------------------------------------------
(* class Result *)

MisuseMessage == "Result cannot be both success and failure"

ResultConstructor(h, value, error) ==
    IF Truthy(value) /\ Truthy(error)
    THEN Throw(NewError(h, MisuseMessage), Ref(Len(h) + 1), <<>>)
    ELSE Return(Append(h, ResultObject(value, error)), Ref(Len(h) + 1), <<>>)

\* mutant: the error of a Success set to null instead of left undefined
success_NullError(h, value) == ResultConstructor(h, value, Null)

success(h, value) == ResultConstructor(h, value, Undefined)

failure(h, error) == ResultConstructor(h, Undefined, error)

\* mutant: the variant decided by the value instead of the error
isSuccess_ByValue(h, self) == h[self.n].value # Undefined

isSuccess(h, self) == h[self.n].error = Undefined

isFailure(h, self) == ~isSuccess(h, self)

\* mutant: the held error wrapped in a new error before it is thrown
getOrThrow_Rewraps(h, self) ==
    IF isSuccess(h, self) THEN Return(h, h[self.n].value, <<>>)
    ELSE Throw(NewError(h, h[h[self.n].error.n].message), Ref(Len(h) + 1), <<>>)

getOrThrow(h, self) ==
    IF isSuccess(h, self) THEN Return(h, h[self.n].value, <<>>)
    ELSE Throw(h, h[self.n].error, <<>>)

\* mutant: the default taken whenever the held value is falsy
getOrDefault_Falsy(h, self, defaultValue) ==
    IF isSuccess(h, self) /\ Truthy(h[self.n].value)
    THEN Return(h, h[self.n].value, <<>>)
    ELSE Return(h, defaultValue, <<>>)

getOrDefault(h, self, defaultValue) ==
    IF isSuccess(h, self) THEN Return(h, h[self.n].value, <<>>)
    ELSE Return(h, defaultValue, <<>>)

\* mutant: the fallback computed before the variant is looked at
getOrElse_Eager(h, self, transfer) ==
    LET c == Invoke(h, transfer, <<h[self.n].error>>)
    IN  IF c.kind = "throw" THEN c
        ELSE IF isSuccess(h, self) THEN Return(h, h[self.n].value, c.calls)
        ELSE c

getOrElse(h, self, transfer) ==
    IF isSuccess(h, self) THEN Return(h, h[self.n].value, <<>>)
    ELSE Invoke(h, transfer, <<h[self.n].error>>)

onSuccess(h, self, f) ==
    IF isSuccess(h, self)
    THEN LET c == Invoke(h, f, <<h[self.n].value>>)
         IN  IF c.kind = "throw" THEN c ELSE Return(h, self, c.calls)
    ELSE Return(h, self, <<>>)

\* mutant: the callback run whatever the variant
onFailure_Always(h, self, f) ==
    LET c == Invoke(h, f, <<h[self.n].error>>)
    IN  IF c.kind = "throw" THEN c ELSE Return(h, self, c.calls)

onFailure(h, self, f) ==
    IF isFailure(h, self)
    THEN LET c == Invoke(h, f, <<h[self.n].error>>)
         IN  IF c.kind = "throw" THEN c ELSE Return(h, self, c.calls)
    ELSE Return(h, self, <<>>)

\* mutant: no instanceof test, every returned value is wrapped
WrapValue_AlwaysWraps(h, value, calls) ==
    LET r == success(h, value)
    IN  [r EXCEPT !.calls = calls]

\* the try block of runCatching / the code after the await of runAsyncCatching
WrapValue(h, value, calls) ==
    IF InstanceOf(h, value, "Result") THEN Return(h, value, calls)
    ELSE LET r == success(h, value)
         IN  [r EXCEPT !.calls = calls]

\* mutant: the caught value stored without convertToError
WrapFault_NoConvert(h, e, calls) ==
    LET r == failure(h, e)
    IN  [r EXCEPT !.calls = calls]

\* the catch block of runCatching / runAsyncCatching
WrapFault(h, e, calls) ==
    LET err == convertToError(h, e)
    IN  IF err.kind = "throw" THEN [err EXCEPT !.calls = calls]
        ELSE LET r == failure(err.h, err.val)
             IN  [r EXCEPT !.calls = calls]

\* mutant: no catch block
runCatching_NoCatch(h, f, args) ==
    LET c == Invoke(h, f, args)
    IN  IF c.kind = "return" THEN WrapValue(h, c.val, c.calls) ELSE c

runCatching(h, f, args) ==
    LET c == Invoke(h, f, args)
    IN  IF c.kind = "return" THEN WrapValue(h, c.val, c.calls)
        ELSE WrapFault(h, c.val, c.calls)

\* runCatching(f, ...args).getOrThrow(): getOrThrow is called on what
\* runCatching returns; what runCatching raises ends the expression
runCatchingGetOrThrow(h, f, args) ==
    LET c == runCatching(h, f, args)
    IN  IF c.kind = "throw" THEN c
        ELSE [getOrThrow(c.h, c.val) EXCEPT !.calls = c.calls]

\* mutant: the transform run whatever the variant
recover_Always(h, self, transform) ==
    runCatching(h, transform, <<h[self.n].error>>)

\* mutant: the outcome of the transform written into the instance itself
recover_InPlace(h, self, transform) ==
    IF isFailure(h, self)
    THEN LET c == runCatching(h, transform, <<h[self.n].error>>)
         IN  IF c.kind = "throw" THEN c
             ELSE Return([c.h EXCEPT ![self.n] = c.h[c.val.n]], self, c.calls)
    ELSE Return(h, self, <<>>)

recover(h, self, transform) ==
    IF isFailure(h, self)
    THEN runCatching(h, transform, <<h[self.n].error>>)
    ELSE Return(h, self, <<>>)

-----------------------------------------------------------------------------
(* Promises and the asynchronous wrappers *)

Pending == [state |-> "pending", val |-> Undefined]
Fulfilled(v) == [state |-> "fulfilled", val |-> v]
Rejected(v) == [state |-> "rejected", val |-> v]

\* an async function body that ends with completion c settles its promise
Settle(c) == IF c.kind = "return" THEN Fulfilled(c.val) ELSE Rejected(c.val)

\* asynchronous callbacks: throw before returning a promise, or return a
\* promise that later resolves, rejects, or never settles
Resolves(v) == [b |-> "resolve", v |-> v]
Rejects(v) == [b |-> "reject", v |-> v]
ResolvesArg == [b |-> "resolveArg", v |-> Undefined]
RejectsArg == [b |-> "rejectArg", v |-> Undefined]
NeverSettles == [b |-> "never", v |-> Undefined]

\* what the promise returned by f(...args) will do
Fate(f, args) ==
    CASE f.b = "resolve" -> Fulfilled(f.v)
      [] f.b = "reject" -> Rejected(f.v)
      [] f.b = "resolveArg" -> Fulfilled(FirstArg(args))
      [] f.b = "rejectArg" -> Rejected(FirstArg(args))
      [] OTHER -> Pending

ThrowsSynchronously(f) == f.b \in {"throw", "throwArg"}

\* runAsyncCatching up to its await: f is called; a synchronous throw goes
\* to the catch block at once, otherwise the function suspends on f's promise
runAsyncCatchingCall(h, f, args) ==
    IF ThrowsSynchronously(f)
    THEN LET c == Invoke(h, f, args)
             w == WrapFault(h, c.val, c.calls)
         IN  [h |-> w.h, pc |-> "done", awaited |-> Pending, fate |-> Pending,
              run |-> Settle(w), calls |-> c.calls]
    ELSE [h |-> h, pc |-> "awaiting", awaited |-> Pending, fate |-> Fate(f, args),
          run |-> Pending, calls |-> <<args>>]

\* mutant: a rejection of the awaited promise is not caught
runAsyncCatchingResume_NoCatch(h, awaited, calls) ==
    IF awaited.state = "fulfilled" THEN WrapValue(h, awaited.val, calls)
    ELSE Throw(h, awaited.val, calls)

\* runAsyncCatching after its await: the awaited promise has settled
runAsyncCatchingResume(h, awaited, calls) ==
    IF awaited.state = "fulfilled" THEN WrapValue(h, awaited.val, calls)
    ELSE WrapFault(h, awaited.val, calls)

\* mutant: the transform run whatever the variant
recoverAsyncCall_Always(h, self, transform) ==
    LET r == runAsyncCatchingCall(h, transform, <<h[self.n].error>>)
    IN  [r EXCEPT !.pc = IF r.pc = "done" THEN "adopting" ELSE r.pc]

\* recoverAsync up to the point where it returns
recoverAsyncCall(h, self, transform) ==
    IF isFailure(h, self)
    THEN LET r == runAsyncCatchingCall(h, transform, <<h[self.n].error>>)
         IN  [r EXCEPT !.pc = IF r.pc = "done" THEN "adopting" ELSE r.pc]
    ELSE [h |-> h, pc |-> "done", awaited |-> Pending, fate |-> Pending,
          run |-> Fulfilled(self), calls |-> <<>>]

-----------------------------------------------------------------------------
(* class DynamoDB: a key-value wrapper around a document client and a table *)

\* the table name the wrapper is constructed with
TableName == "test-table"

Keys == {"k1", "k2"}
StoredValues == {"", "testValue"}

\* what Date.now() may read, in milliseconds
Times == {1999, 1234567890}

\* a DynamoDBItem; NoItem is the undefined Item of a response
NoItem == [key |-> Undefined, value |-> Undefined, expiresAt |-> Undefined]
DynamoDBItem(key, value) ==
    [key |-> Str(key), value |-> Str(value), expiresAt |-> Undefined]

\* the options argument of put: left out, or an object whose expirationTtl
\* is ttl (undefined when the object has none)
NoOptions == [given |-> FALSE, expirationTtl |-> Undefined]
PutOptions(ttl) == [given |-> TRUE, expirationTtl |-> ttl]

Options ==
    {NoOptions, PutOptions(Undefined), PutOptions(Num(0)), PutOptions(Num(3600))}

GetCommand(tableName, key) ==
    [name |-> "Get", TableName |-> tableName, Key |-> key, Item |-> NoItem]
PutCommand(tableName, item) ==
    [name |-> "Put", TableName |-> tableName, Key |-> "", Item |-> item]
DeleteCommand(tableName, key) ==
    [name |-> "Delete", TableName |-> tableName, Key |-> key, Item |-> NoItem]

\* how the promise of client.send(command) settles
Output(item) == [ok |-> TRUE, Item |-> item, error |-> Undefined]
Fault(e) == [ok |-> FALSE, Item |-> NoItem, error |-> e]
NoResponse == [ok |-> FALSE, Item |-> NoItem, error |-> Undefined]

\* the document client and the table behind it: a Get reads the item under
\* the key, a Put replaces it, a Delete removes it
EmptyTable == [k \in Keys |-> NoItem]

ClientOutput(t, command) ==
    IF command.name = "Get" THEN Output(t[command.Key]) ELSE Output(NoItem)

ClientEffect(t, command) ==
    CASE command.name = "Put" -> [t EXCEPT ![command.Item.key.s] = command.Item]
      [] command.name = "Delete" -> [t EXCEPT ![command.Key] = NoItem]
      [] OTHER -> t

\* how a method goes on after its await: it settles its promise as the
\* completion c says, or sends a command again
Settles(c) == [c |-> c, resend |-> FALSE]
Resends(c) == [c |-> c, resend |-> TRUE]

\* get up to its await: the command it sends
getCall(tableName, key) == GetCommand(tableName, key)

\* mutant: a failure of the client answered with null
getResume_Swallow(h, response) ==
    IF response.ok /\ response.Item # NoItem /\ Truthy(response.Item.value)
    THEN Settles(Return(h, response.Item.value, <<>>))
    ELSE Settles(Return(h, Null, <<>>))

\* get after its await; the calls of the completion are those of console.error
getResume(h, response) ==
    IF response.ok
    THEN LET item == response.Item
         IN  Settles(Return(h, IF item # NoItem /\ Truthy(item.value)
                               THEN item.value ELSE Null, <<>>))
    ELSE Settles(Throw(h, response.error, <<response.error>>))

\* put up to its await: the item it builds and the command it sends
putCall(tableName, key, value, options, now) ==
    LET item == DynamoDBItem(key, value)
    IN  PutCommand(tableName,
            IF options.given /\ Truthy(options.expirationTtl)
            THEN [item EXCEPT !.expiresAt =
                     Num((now \div 1000) + options.expirationTtl.n)]
            ELSE item)

putResume(h, response) ==
    IF response.ok THEN Settles(Return(h, Undefined, <<>>))
    ELSE Settles(Throw(h, response.error, <<response.error>>))

deleteCall(tableName, key) == DeleteCommand(tableName, key)

\* mutant: the command sent again when the client fails
deleteResume_Retry(h, response) ==
    IF response.ok THEN Settles(Return(h, Undefined, <<>>))
    ELSE Resends(Throw(h, response.error, <<response.error>>))

deleteResume(h, response) ==
    IF response.ok THEN Settles(Return(h, Undefined, <<>>))
    ELSE Settles(Throw(h, response.error, <<response.error>>))

-----------------------------------------------------------------------------
(* The state *)

\* the objects the callers hold before any call of the library:
\*   1: {a: 1}   2: [1, 2, 3]   3: o = {a: 1}, o.self = o   4: new Error('x')
InitHeap ==
    << PlainObject(<<Prop("a", Num(1))>>),
       ArrayObject(<<Num(1), Num(2), Num(3)>>),
       PlainObject(<<Prop("a", Num(1)), Prop("self", Ref(3))>>),
       ErrorObject("x") >>

Primitives ==
    {Undefined, Null, Fn, BigInt, Str("plain string"), Num(42), Bool(TRUE)}

Refs(h) == {Ref(a) : a \in 1..Len(h)}
Errors(h) == {v \in Refs(h) : h[v.n].cls = "Error"}
Results(h) == {v \in Refs(h) : h[v.n].cls = "Result"}

\* what a callback may throw, or its promise reject with
Values(h) == Primitives \cup Refs(h)

\* what a Result is made to hold, a callback returns or its promise resolves to
Payloads(h) == {Undefined, Num(0), Num(42)} \cup Results(h)

\* the functions handed to runCatching
Callbacks(h) ==
    {Returns(v) : v \in Payloads(h)} \cup {Throws(v) : v \in Values(h)}
        \cup {ReturnsArg, ThrowsArg}

\* the functions handed to the methods of a Result
Handlers(h) ==
    {Returns(v) : v \in Payloads(h)}
        \cup {Throws(Str("plain string")), Throws(Ref(3)), Throws(Ref(4))}
        \cup {ReturnsArg, ThrowsArg}

\* the asynchronous functions handed to runAsyncCatching
AsyncCallbacks(h) ==
    {Resolves(v) : v \in Payloads(h)} \cup {Rejects(v) : v \in Values(h)}
        \cup {Throws(Str("plain string")), Throws(Ref(3)), Throws(Ref(4))}
        \cup {ResolvesArg, RejectsArg, NeverSettles}

\* the asynchronous functions handed to recoverAsync
AsyncHandlers(h) ==
    {Resolves(Num(42))} \cup {Resolves(r) : r \in Results(h)}
        \cup {Rejects(Str("plain string")), Rejects(Ref(3)), Throws(Ref(3))}
        \cup {ResolvesArg, RejectsArg, ThrowsArg, NeverSettles}

ArgLists == {<<>>, <<Num(42), Str("plain string")>>}

UsesArgs(f) == f.b \in {"returnArg", "throwArg", "resolveArg", "rejectArg"}

\* a call f(...args): arguments are passed to the functions that read them
Calls(fs) ==
    {<<f, <<>>>> : f \in {g \in fs : ~UsesArgs(g)}}
        \cup ({g \in fs : UsesArgs(g)} \X ArgLists)

Call(op, self, f, args, c) ==
    [op |-> op, self |-> self, f |-> f, args |-> args,
     kind |-> c.kind, val |-> c.val, calls |-> c.calls]

NoCall == Call("none", Undefined, NoCallback, <<>>, Return(<<>>, Undefined, <<>>))

Init ==
    /\ heap = InitHeap
    /\ last = NoCall
    /\ tasks = <<>>
    /\ table = EmptyTable
    /\ ops = <<>>

\* the objects the continuation of an asynchronous call will allocate
Need(h, t) ==
    LET settled == IF t.pc = "queued" THEN t.awaited ELSE t.fate
    IN  IF t.pc \in {"awaiting", "queued"} /\ settled.state # "pending"
        THEN Len(runAsyncCatchingResume(h, settled, t.calls).h) - Len(h)
        ELSE 0

RECURSIVE Needs(_, _, _)
Needs(h, ts, i) == IF i > Len(ts) THEN 0 ELSE Need(h, ts[i]) + Needs(h, ts, i + 1)

\* the heap has room for h and for what the calls in flight will allocate
Room(h, ts) == Len(h) + Needs(h, ts, 1) <= MaxHeap

\* the caller is free to make a synchronous call: it holds no outcome it
\* has not taken, and no asynchronous call is in flight
Idle == last = NoCall /\ tasks = <<>>

\* the caller is free to make an asynchronous call
CanStart ==
    /\ last = NoCall
    /\ Len(tasks) < MaxTasks
    /\ \A i \in 1..Len(tasks) : tasks[i].pc \in {"awaiting", "queued"}

\* a synchronous call that ends with completion c
Finish(op, self, f, args, c) ==
    /\ last = NoCall
    /\ tasks = <<>>
    /\ Room(c.h, tasks)
    /\ heap' = c.h
    /\ last' = Call(op, self, f, args, c)
    /\ UNCHANGED <<tasks, store>>

Task(op, self, f, args, r) ==
    [op |-> op, self |-> self, f |-> f, args |-> args, pc |-> r.pc,
     awaited |-> r.awaited, fate |-> r.fate, run |-> r.run,
     promise |-> IF r.pc = "done" THEN r.run ELSE Pending,
     settles |-> IF r.pc = "done" THEN 1 ELSE 0,
     calls |-> r.calls, turn |-> 0]

\* an asynchronous call: it returns its promise to the caller
Start(op, self, f, args, r) ==
    /\ last = NoCall
    /\ Len(tasks) < MaxTasks
    /\ \A i \in 1..Len(tasks) : tasks[i].pc \in {"awaiting", "queued"}
    /\ tasks' = Append(tasks, Task(op, self, f, args, r))
    /\ Room(r.h, tasks')
    /\ heap' = r.h
    /\ UNCHANGED <<last, store>>

Success ==
    /\ Idle
    /\ \E v \in Payloads(heap) :
        Finish("success", Undefined, NoCallback, <<v>>, success(heap, v))

Failure ==
    /\ Idle
    /\ \E e \in Errors(heap) :
        Finish("failure", Undefined, NoCallback, <<e>>, failure(heap, e))

IsSuccess ==
    /\ Idle
    /\ \E r \in Results(heap) :
        Finish("isSuccess", r, NoCallback, <<>>,
               Return(heap, Bool(isSuccess(heap, r)), <<>>))

IsFailure ==
    /\ Idle
    /\ \E r \in Results(heap) :
        Finish("isFailure", r, NoCallback, <<>>,
               Return(heap, Bool(isFailure(heap, r)), <<>>))

GetOrThrow ==
    /\ Idle
    /\ \E r \in Results(heap) :
        Finish("getOrThrow", r, NoCallback, <<>>, getOrThrow(heap, r))

GetOrDefault ==
    /\ Idle
    /\ \E r \in Results(heap), d \in Payloads(heap) :
        Finish("getOrDefault", r, NoCallback, <<d>>, getOrDefault(heap, r, d))

GetOrElse ==
    /\ Idle
    /\ \E r \in Results(heap), f \in Handlers(heap) :
        Finish("getOrElse", r, f, <<>>, getOrElse(heap, r, f))

OnSuccess ==
    /\ Idle
    /\ \E r \in Results(heap), f \in Handlers(heap) :
        Finish("onSuccess", r, f, <<>>, onSuccess(heap, r, f))

OnFailure ==
    /\ Idle
    /\ \E r \in Results(heap), f \in Handlers(heap) :
        Finish("onFailure", r, f, <<>>, onFailure(heap, r, f))

Recover ==
    /\ Idle
    /\ \E r \in Results(heap), f \in Handlers(heap) :
        Finish("recover", r, f, <<>>, recover(heap, r, f))

RunCatching ==
    /\ Idle
    /\ \E call \in Calls(Callbacks(heap)) :
        Finish("runCatching", Undefined, call[1], call[2],
               runCatching(heap, call[1], call[2]))

RunCatchingGetOrThrow ==
    /\ Idle
    /\ \E call \in Calls(Callbacks(heap)) :
        Finish("runCatching.getOrThrow", Undefined, call[1], call[2],
               runCatchingGetOrThrow(heap, call[1], call[2]))

RunAsyncCatching ==
    /\ CanStart
    /\ \E call \in Calls(AsyncCallbacks(heap)) :
        Start("runAsyncCatching", Undefined, call[1], call[2],
              runAsyncCatchingCall(heap, call[1], call[2]))

RecoverAsync ==
    /\ CanStart
    /\ \E r \in Results(heap), f \in AsyncHandlers(heap) :
        Start("recoverAsync", r, f, <<>>, recoverAsyncCall(heap, r, f))

\* the continuations of an await that wait in the job queue
Queued(ts) == {j \in 1..Len(ts) : ts[j].pc = "queued"}

\* mutant: the continuations run in the order of the calls
Runs_CallOrder(ts, i) == i \in Queued(ts) /\ \A j \in Queued(ts) : i <= j

\* mutant: a continuation waits until no other call is suspended
Runs_AfterOthers(ts, i) ==
    /\ i \in Queued(ts)
    /\ ts[i].turn = 1
    /\ \A j \in 1..Len(ts) : ts[j].pc # "awaiting"

\* the continuation of call i is the job the queue runs next: jobs run in
\* the order in which the awaited promises settled
Runs(ts, i) == i \in Queued(ts) /\ ts[i].turn = 1

\* the promise the callback returned settles: the continuation of the await
\* is put at the end of the job queue
CallbackSettles ==
    \E i \in 1..Len(tasks) :
        /\ last = NoCall
        /\ tasks[i].pc = "awaiting"
        /\ tasks[i].fate.state # "pending"
        /\ tasks' = [tasks EXCEPT ![i].awaited = tasks[i].fate, ![i].pc = "queued",
                                  ![i].turn = Cardinality(Queued(tasks)) + 1]
        /\ UNCHANGED <<heap, last, store>>

\* runAsyncCatching goes on after its await and settles its promise
Resume ==
    \E i \in 1..Len(tasks) :
        /\ last = NoCall
        /\ Runs(tasks, i)
        /\ LET c == runAsyncCatchingResume(heap, tasks[i].awaited, tasks[i].calls)
               direct == tasks[i].op = "runAsyncCatching"
           IN  /\ heap' = c.h
               /\ tasks' = [j \in 1..Len(tasks) |->
                               IF j = i
                               THEN [tasks[i] EXCEPT
                                       !.run = Settle(c),
                                       !.pc = IF direct THEN "done" ELSE "adopting",
                                       !.promise = IF direct THEN Settle(c) ELSE @,
                                       !.settles = IF direct THEN @ + 1 ELSE @,
                                       !.turn = 0]
                               ELSE IF tasks[j].pc = "queued"
                               THEN [tasks[j] EXCEPT !.turn = @ - 1]
                               ELSE tasks[j]]
        /\ UNCHANGED <<last, store>>

\* the promise of recoverAsync follows the promise runAsyncCatching returned
Adopt ==
    \E i \in 1..Len(tasks) :
        /\ last = NoCall
        /\ tasks[i].pc = "adopting"
        /\ tasks' = [tasks EXCEPT ![i].promise = tasks[i].run,
                                  ![i].pc = "done",
                                  ![i].settles = @ + 1]
        /\ UNCHANGED <<heap, last, store>>

Remove(ts, i) == [j \in 1..(Len(ts) - 1) |-> IF j < i THEN ts[j] ELSE ts[j + 1]]

\* the caller's await of a settled promise ends, and the promise is dropped
Await ==
    \E i \in 1..Len(tasks) :
        /\ last = NoCall
        /\ tasks[i].pc = "done"
        /\ tasks' = Remove(tasks, i)
        /\ UNCHANGED <<heap, last, store>>

\* the caller takes the outcome of the call and goes on
Consume ==
    /\ last # NoCall
    /\ last' = NoCall
    /\ UNCHANGED <<heap, tasks, store>>

Next ==
    \/ Consume
    \/ Success
    \/ Failure
    \/ IsSuccess
    \/ IsFailure
    \/ GetOrThrow
    \/ GetOrDefault
    \/ GetOrElse
    \/ OnSuccess
    \/ OnFailure
    \/ Recover
    \/ RunCatching
    \/ RunCatchingGetOrThrow
    \/ RunAsyncCatching
    \/ RecoverAsync
    \/ CallbackSettles
    \/ Resume
    \/ Adopt
    \/ Await

Spec == Init /\ [][Next]_vars

-----------------------------------------------------------------------------
(* The constructor of Result called directly, with both of its arguments *)

\* the values handed to the constructor, the falsy ones among them
ConstructorValues ==
    {Undefined, Num(0), Num(42), Str(""), Str("plain string"),
     Bool(FALSE), Bool(TRUE)}

\* new Result(value, error)
Construct ==
    \E v \in ConstructorValues, e \in {Undefined} \cup Errors(heap) :
        Finish("new", Undefined, NoCallback, <<v, e>>,
               ResultConstructor(heap, v, e))

NextConstructor ==
    \/ Construct
    \/ IsSuccess
    \/ IsFailure
    \/ Consume

SpecConstructor == Init /\ [][NextConstructor]_vars

-----------------------------------------------------------------------------
(* The error utilities called directly *)

\* the objects handed to the error utilities: those of InitHeap, and
\*   5: []   6: {code: 'X'}   7: {nested: true}
\*   8: {a: 1, b: 'string', c: {nested: true}, d: [1, 2, 3]}
\*   9: {inner: o}, o the self-referential object 3
ErrorUtilsHeap ==
    InitHeap \o
    << ArrayObject(<<>>),
       PlainObject(<<Prop("code", Str("X"))>>),
       PlainObject(<<Prop("nested", Bool(TRUE))>>),
       PlainObject(<<Prop("a", Num(1)), Prop("b", Str("string")),
                     Prop("c", Ref(7)), Prop("d", Ref(2))>>),
       PlainObject(<<Prop("inner", Ref(3))>>) >>

ErrorUtilsValues(h) ==
    {Undefined, Null, NaN, Fn, BigInt, Str(""), Str("plain string"),
     Num(0), Num(42), Num(404), Bool(TRUE), Bool(FALSE)} \cup Refs(h)

InitErrorUtils ==
    /\ heap = ErrorUtilsHeap
    /\ last = NoCall
    /\ tasks = <<>>
    /\ table = EmptyTable
    /\ ops = <<>>

\* a call of an error utility that ends with completion c
Apply(op, f, args, c) ==
    /\ last = NoCall
    /\ Len(heap) < Len(ErrorUtilsHeap) + MaxMade
    /\ heap' = c.h
    /\ last' = Call(op, Undefined, f, args, c)
    /\ UNCHANGED <<tasks, store>>

GetErrorMessage ==
    \E e \in ErrorUtilsValues(heap) :
        Apply("getErrorMessage", NoCallback, <<e>>, getErrorMessageCall(heap, e))

ConvertToError ==
    \E e \in ErrorUtilsValues(heap) :
        Apply("convertToError", NoCallback, <<e>>, convertToError(heap, e))

\* runCatching around a function that throws e: the catch block converts e
CatchThrown ==
    \E e \in ErrorUtilsValues(heap) :
        Apply("runCatching", Throws(e), <<>>, runCatching(heap, Throws(e), <<>>))

NextErrorUtils ==
    \/ GetErrorMessage
    \/ ConvertToError
    \/ CatchThrown
    \/ Consume

SpecErrorUtils == InitErrorUtils /\ [][NextErrorUtils]_vars

-----------------------------------------------------------------------------
(* The calls of DynamoDB, the client and its table *)

\* the errors the client may reject with: two objects with the same message
DynamoDBHeap == <<ErrorObject("DynamoDB Error"), ErrorObject("DynamoDB Error")>>

InitDynamoDB ==
    /\ heap = DynamoDBHeap
    /\ last = NoCall
    /\ tasks = <<>>
    /\ table = EmptyTable
    /\ ops = <<>>

\* a call that has run up to its await and has sent command to the client
DynamoDBOp(op, key, value, options, now, command) ==
    [op |-> op, key |-> key, value |-> value, options |-> options, now |-> now,
     pc |-> "sending", sent |-> <<command>>, response |-> NoResponse,
     promise |-> Pending, settles |-> 0, logged |-> <<>>]

\* a call is made while the calls in flight wait for the client: the
\* continuation of an await runs before the caller makes another call
CanSend ==
    /\ Len(ops) < MaxTasks
    /\ \A i \in 1..Len(ops) : ops[i].pc = "sending"

Send(o) ==
    /\ ops' = Append(ops, o)
    /\ UNCHANGED <<heap, last, tasks, table>>

Get ==
    /\ CanSend
    /\ \E key \in Keys :
          Send(DynamoDBOp("get", key, "", NoOptions, 0, getCall(TableName, key)))

Put ==
    /\ CanSend
    /\ \E key \in Keys, value \in StoredValues, options \in Options, now \in Times :
          Send(DynamoDBOp("put", key, value, options, now,
                          putCall(TableName, key, value, options, now)))

Delete ==
    /\ CanSend
    /\ \E key \in Keys :
          Send(DynamoDBOp("delete", key, "", NoOptions, 0,
                          deleteCall(TableName, key)))

\* the client carries out the command a call is waiting for
ClientResponds ==
    \E i \in 1..Len(ops) :
        /\ ops[i].pc = "sending"
        /\ LET command == ops[i].sent[Len(ops[i].sent)]
           IN  /\ table' = ClientEffect(table, command)
               /\ ops' = [ops EXCEPT ![i].response = ClientOutput(table, command),
                                     ![i].pc = "responded"]
        /\ UNCHANGED <<heap, last, tasks>>

\* the client fails: the promise of send rejects with one of its errors
ClientFails ==
    \E i \in 1..Len(ops), e \in Errors(heap) :
        /\ ops[i].pc = "sending"
        /\ ops' = [ops EXCEPT ![i].response = Fault(e), ![i].pc = "responded"]
        /\ UNCHANGED <<heap, last, tasks, table>>

\* the call goes on after its await
DynamoDBResume ==
    \E i \in 1..Len(ops) :
        /\ ops[i].pc = "responded"
        /\ LET r == CASE ops[i].op = "get" -> getResume(heap, ops[i].response)
                      [] ops[i].op = "put" -> putResume(heap, ops[i].response)
                      [] OTHER -> deleteResume(heap, ops[i].response)
           IN  /\ heap' = r.c.h
               /\ ops' = IF r.resend
                         THEN [ops EXCEPT ![i].pc = "sending",
                                          ![i].sent = Append(@, @[Len(@)]),
                                          ![i].logged = @ \o r.c.calls]
                         ELSE [ops EXCEPT ![i].pc = "done",
                                          ![i].promise = Settle(r.c),
                                          ![i].settles = @ + 1,
                                          ![i].logged = @ \o r.c.calls]
        /\ UNCHANGED <<last, tasks, table>>

\* the caller's await of a settled call ends
DynamoDBAwait ==
    \E i \in 1..Len(ops) :
        /\ ops[i].pc = "done"
        /\ ops' = Remove(ops, i)
        /\ UNCHANGED <<heap, last, tasks, table>>

NextDynamoDB ==
    \/ Get
    \/ Put
    \/ Delete
    \/ ClientResponds
    \/ ClientFails
    \/ DynamoDBResume
    \/ DynamoDBAwait

SpecDynamoDB == InitDynamoDB /\ [][NextDynamoDB]_vars

-----------------------------------------------------------------------------
(* Independent calls of runAsyncCatching made side by side *)

\* the asynchronous functions handed to the calls made side by side
ConcurrentCallbacks ==
    {Resolves(Num(0)), Resolves(Num(42)), Rejects(Ref(4)), Rejects(Ref(3)),
     Rejects(Str("plain string")), Throws(Ref(4)), NeverSettles}

\* the caller makes a further call while its earlier calls are in flight
CallSideBySide ==
    /\ last = NoCall
    /\ Len(tasks) < MaxConcurrent
    /\ \A i \in 1..Len(tasks) : tasks[i].pc \in {"awaiting", "queued"}
    /\ \E f \in ConcurrentCallbacks :
          LET r == runAsyncCatchingCall(heap, f, <<>>)
          IN  /\ tasks' = Append(tasks, Task("runAsyncCatching", Undefined, f, <<>>, r))
              /\ Room(r.h, tasks')
              /\ heap' = r.h
    /\ UNCHANGED <<last, store>>

NextConcurrent ==
    \/ CallSideBySide
    \/ CallbackSettles
    \/ Resume
    \/ Await

SpecConcurrent == Init /\ [][NextConcurrent]_vars

\* the same calls up to the settling of their promises, which stay in place
\* for good; the job queue runs a continuation that is ready, while nothing
\* makes the promise of a callback settle
NextSettling ==
    \/ CallSideBySide
    \/ CallbackSettles
    \/ Resume

SpecSettling == Init /\ [][NextSettling]_vars /\ WF_vars(Resume)

-----------------------------------------------------------------------------
(* Vocabulary of the properties *)

Value(r) == heap[r.n].value
Error(r) == heap[r.n].error
IsResult(v) == InstanceOf(heap, v, "Result")
IsError(v) == InstanceOf(heap, v, "Error")
Populated(v) == v # Undefined

\* the last call was op and has come back
Called(op) == last.op = op
Returned(op) == last.op = op /\ last.kind = "return"
Raised(op) == last.op = op /\ last.kind = "throw"

\* what the callback of the last call does when it is called with args
Outcome(f, args) == Invoke(heap, f, args)

\* convertToError(x) comes back with an error
Normalizes(x) == IsError(x) \/ getErrorMessage(heap, x).r # "throw"

\* r is the Failure the catch block builds from the thrown value x: it holds
\* x itself when x is an error, otherwise the error made just before it
FailureOf(r, x) ==
    /\ IsResult(r)
    /\ isFailure(heap, r)
    /\ Value(r) = Undefined
    /\ IsError(Error(r))
    /\ IsError(x) => Error(r) = x
    /\ ~IsError(x) => Error(r) = Ref(r.n - 1)

\* r is a Success holding v
SuccessOf(r, v) ==
    /\ IsResult(r)
    /\ isSuccess(heap, r)
    /\ Value(r) = v
    /\ Error(r) = Undefined

\* v is the TypeError JSON.stringify raises on x
SerializationFault(v, x) ==
    /\ IsError(v)
    /\ heap[v.n].message = getErrorMessage(heap, x).s
    /\ heap[v.n].message \in {CircularMessage, BigIntMessage}

Tasks(op) == {i \in 1..Len(tasks) : tasks[i].op = op}
Done(i) == tasks[i].pc = "done"

\* the value the callback of task i throws, or its promise rejects with
Faults(i) ==
    IF tasks[i].calls = <<>> THEN {}
    ELSE IF ThrowsSynchronously(tasks[i].f)
    THEN {Outcome(tasks[i].f, tasks[i].calls[1]).val}
    ELSE IF tasks[i].fate.state = "rejected" THEN {tasks[i].fate.val}
    ELSE {}

-----------------------------------------------------------------------------
(* C1: Result.success(v) is a Success holding v and no error, Result.failure(e)
   is a Failure holding e itself and no value, and on every Result exactly one
   of isSuccess() and isFailure() is true. *)
C1_Variants ==
    /\ Called("success") => Returned("success") /\ SuccessOf(last.val, last.args[1])
                            /\ ~isFailure(heap, last.val)
    /\ Called("failure") => /\ Returned("failure")
                            /\ IsResult(last.val)
                            /\ ~isSuccess(heap, last.val)
                            /\ isFailure(heap, last.val)
                            /\ Error(last.val) = last.args[1]
                            /\ Value(last.val) = Undefined
    /\ \A r \in Results(heap) : isSuccess(heap, r) # isFailure(heap, r)
    /\ Called("isSuccess") => last.val = Bool(Error(last.self) = Undefined)
    /\ Called("isFailure") => last.val = Bool(Error(last.self) # Undefined)

C1_Witness ==
    /\ Returned("failure")
    /\ \E r \in Results(heap) : SuccessOf(r, Undefined)

(* C2, as claimed: every Result has its value populated or its error
   populated, and never both, never neither. *)
C2_ValueXorError ==
    \A r \in Results(heap) : Populated(Value(r)) # Populated(Error(r))

(* C2, amended: no Result has both its value and its error populated; a
   Failure holds an error and no value; a Result with neither populated is a
   Success holding undefined, as success(undefined) or a callback that returns
   nothing builds it. *)
C2_NeverBoth ==
    /\ \A r \in Results(heap) :
          /\ ~(Populated(Value(r)) /\ Populated(Error(r)))
          /\ isFailure(heap, r) => IsError(Error(r)) /\ Value(r) = Undefined
          /\ ~Populated(Value(r)) /\ ~Populated(Error(r)) => SuccessOf(r, Undefined)
    /\ Returned("success") /\ ~Populated(Value(last.val)) => last.args[1] = Undefined
    /\ Returned("success") /\ Populated(last.args[1]) => Populated(Value(last.val))

C2_Witness ==
    /\ Returned("runCatching")
    /\ last.f = Returns(Undefined)
    /\ ~Populated(Value(last.val))
    /\ ~Populated(Error(last.val))
    /\ \E r \in Results(heap) : isFailure(heap, r)

(* C3, as claimed: runCatching returns a Result and never raises, whatever
   the callback throws, self-referential objects included. *)
C3_NeverRaises ==
    Called("runCatching") => Returned("runCatching") /\ IsResult(last.val)

(* C3, amended: runCatching returns a Result for every callback and every
   thrown value that convertToError can turn into an error; when the callback
   throws a value that is no error and that JSON.stringify rejects (a
   self-referential object, a BigInt), the TypeError of JSON.stringify
   escapes runCatching. *)
C3_RaisesOnlySerializationFault ==
    Called("runCatching") =>
        LET c == Outcome(last.f, last.args)
        IN  IF c.kind = "throw" /\ ~Normalizes(c.val)
            THEN Raised("runCatching") /\ SerializationFault(last.val, c.val)
            ELSE Returned("runCatching") /\ IsResult(last.val)

C3_Witness ==
    /\ Returned("runCatching")
    /\ last.f = Throws(Ref(1))
    /\ IsResult(last.val)

\* the message convertToError gives the error it makes from x
MessageFor(x) ==
    CASE x = Undefined -> "undefined"
      [] x = Null -> "null"
      [] x = Str("plain string") -> "plain string"
      [] x = Num(42) -> "42"
      [] x = Bool(TRUE) -> "true"
      [] x = Ref(1) -> "{\"a\":1}"
      [] x = Ref(2) -> "[1,2,3]"
      [] OTHER -> getErrorMessage(heap, x).s

\* r is the Failure of the thrown value x, with the message of the claim
NormalizedFailure(r, x) ==
    /\ FailureOf(r, x)
    /\ getErrorMessage(heap, x).r = "string"
    /\ heap[Error(r).n].message = MessageFor(x)

(* C4, as claimed: when the callback of runCatching or runAsyncCatching
   raises (or rejects with) x, the outcome is a Failure whose error is x
   itself when x is an error, and otherwise a new error whose message is
   toMessage(x). *)
C4_FailureOfThrown ==
    /\ Called("runCatching") /\ Outcome(last.f, last.args).kind = "throw" =>
          /\ Returned("runCatching")
          /\ NormalizedFailure(last.val, Outcome(last.f, last.args).val)
    /\ \A i \in Tasks("runAsyncCatching") : \A x \in Faults(i) :
          Done(i) => /\ tasks[i].promise.state = "fulfilled"
                     /\ NormalizedFailure(tasks[i].promise.val, x)

\* what runCatching (kind, val) or runAsyncCatching makes of the thrown x
FaultOutcome(kind, val, x) ==
    IF Normalizes(x)
    THEN /\ kind = "return"
         /\ FailureOf(val, x)
         /\ heap[Error(val).n].message =
               (IF getErrorMessage(heap, x).r = "undefined" THEN "" ELSE MessageFor(x))
    ELSE /\ kind = "throw"
         /\ SerializationFault(val, x)

(* C4, amended: when the callback raises (or rejects with) x and toError(x)
   comes back, the outcome is a Failure whose error is x itself when x is an
   error, and otherwise a new error whose message is toMessage(x) when that
   is a string and the empty string when JSON.stringify(x) is undefined (x a
   function); when toError(x) raises (x self-referential or a BigInt) there
   is no Failure: runCatching raises, and the promise of runAsyncCatching
   rejects with, the TypeError of JSON.stringify. *)
C4_FailureOfNormalized ==
    /\ Called("runCatching") /\ Outcome(last.f, last.args).kind = "throw" =>
          FaultOutcome(last.kind, last.val, Outcome(last.f, last.args).val)
    /\ \A i \in Tasks("runAsyncCatching") : \A x \in Faults(i) :
          Done(i) => FaultOutcome(IF tasks[i].promise.state = "fulfilled"
                                  THEN "return" ELSE "throw",
                                  tasks[i].promise.val, x)

C4_Witness ==
    /\ Returned("runCatching")
    /\ last.f = Throws(Str("plain string"))
    /\ heap[Error(last.val).n].message = "plain string"

\* the outcome val of a wrapper whose callback completed normally with v
Flattened(val, v) ==
    /\ IsResult(val)
    /\ IsResult(v) => val = v
    /\ ~IsResult(v) => SuccessOf(val, v)
    /\ IsResult(Value(val)) => val = v

(* C5: when the callback completes normally with a Result, runCatching
   returns, and runAsyncCatching resolves to, that very instance; with any
   other value v the outcome is a Success holding v; the wrappers never
   build a Result that holds a Result. *)
C5_Flattening ==
    /\ Called("runCatching") /\ Outcome(last.f, last.args).kind = "return" =>
          /\ Returned("runCatching")
          /\ Flattened(last.val, Outcome(last.f, last.args).val)
    /\ \A i \in Tasks("runAsyncCatching") :
          Done(i) /\ tasks[i].fate.state = "fulfilled" =>
              /\ tasks[i].promise.state = "fulfilled"
              /\ Flattened(tasks[i].promise.val, tasks[i].fate.val)

C5_Witness ==
    /\ Returned("runCatching")
    /\ IsResult(last.f.v)
    /\ last.f = Returns(last.val)
    /\ isFailure(heap, last.val)

\* the promise of task i and its bookkeeping agree
SettledOnce(i) ==
    /\ tasks[i].settles <= 1
    /\ tasks[i].settles = 1 <=> tasks[i].promise.state # "pending"
    /\ tasks[i].settles = 1 <=> Done(i)

(* C6, as claimed: the promise of runAsyncCatching settles exactly once and
   always by resolving to a Result, never by rejecting. *)
C6_NeverRejects ==
    \A i \in Tasks("runAsyncCatching") :
        /\ SettledOnce(i)
        /\ Done(i) => /\ tasks[i].promise.state = "fulfilled"
                      /\ IsResult(tasks[i].promise.val)

(* C6, amended: the promise of runAsyncCatching settles at most once, and
   not before the callback has thrown or its promise has settled; it
   resolves to a Result when the callback's promise resolves, and when the
   callback throws or its promise rejects with a value toError can turn into
   an error (a rejection with new Error('x') resolves to a Failure with
   message 'x'); it rejects, with the TypeError of JSON.stringify, exactly
   when that value is self-referential or a BigInt. *)
C6_SettlesOnce ==
    \A i \in Tasks("runAsyncCatching") :
        /\ SettledOnce(i)
        /\ tasks[i].pc = "awaiting" => tasks[i].awaited.state = "pending"
        /\ Done(i) =>
              /\ tasks[i].promise.state = "rejected" <=>
                    \E x \in Faults(i) : ~Normalizes(x)
              /\ tasks[i].promise.state = "fulfilled" =>
                    IsResult(tasks[i].promise.val)
              /\ tasks[i].promise.state = "rejected" =>
                    \A x \in Faults(i) : SerializationFault(tasks[i].promise.val, x)
              /\ tasks[i].f = Rejects(Ref(4)) =>
                    /\ isFailure(heap, tasks[i].promise.val)
                    /\ heap[Error(tasks[i].promise.val).n].message = "x"

C6_Witness ==
    \E i \in Tasks("runAsyncCatching") :
        /\ Done(i)
        /\ tasks[i].f = Rejects(Ref(4))
        /\ tasks[i].promise.state = "fulfilled"

(* C7: getOrThrow() on a Success returns the held value without raising; on
   a Failure it raises the held error itself. *)
C7_GetOrThrow ==
    Called("getOrThrow") =>
        IF Error(last.self) = Undefined
        THEN Returned("getOrThrow") /\ last.val = Value(last.self)
        ELSE Raised("getOrThrow") /\ last.val = Error(last.self)

C7_Witness ==
    /\ Raised("getOrThrow")
    /\ IsError(last.val)
    /\ \E r \in Results(heap) : isSuccess(heap, r) /\ Populated(Value(r))

(* C8, as claimed: getOrThrow() on a Failure is the only call that raises;
   every other operation, with any callback, completes without raising, and
   no promise of the asynchronous operations rejects. *)
C8_OnlyGetOrThrowRaises ==
    /\ last.kind = "throw" => Called("getOrThrow") /\ isFailure(heap, last.self)
    /\ \A i \in 1..Len(tasks) : tasks[i].promise.state # "rejected"

\* the callback f, called with the value v, throws
ThrowsOn(f, v) == Outcome(f, <<v>>).kind = "throw"
Thrown(f, v) == Outcome(f, <<v>>).val

(* C8, amended: success, failure, isSuccess, isFailure and getOrDefault never
   raise, and getOrThrow raises exactly on a Failure; getOrElse, onSuccess and
   onFailure raise exactly when they call their callback and it throws, and
   they raise what it threw; runCatching and recover raise exactly when the
   callback throws a value toError cannot turn into an error (self-referential
   or a BigInt), and the promises of runAsyncCatching and recoverAsync reject
   exactly in that case. *)
C8_WhatRaises ==
    /\ last.op \in {"success", "failure", "isSuccess", "isFailure", "getOrDefault"}
          => last.kind = "return"
    /\ Called("getOrThrow") => (Raised("getOrThrow") <=> isFailure(heap, last.self))
    /\ Called("getOrElse") =>
          /\ Raised("getOrElse") <=>
                isFailure(heap, last.self) /\ ThrowsOn(last.f, Error(last.self))
          /\ Raised("getOrElse") => last.val = Thrown(last.f, Error(last.self))
    /\ Called("onSuccess") =>
          /\ Raised("onSuccess") <=>
                isSuccess(heap, last.self) /\ ThrowsOn(last.f, Value(last.self))
          /\ Raised("onSuccess") => last.val = Thrown(last.f, Value(last.self))
    /\ Called("onFailure") =>
          /\ Raised("onFailure") <=>
                isFailure(heap, last.self) /\ ThrowsOn(last.f, Error(last.self))
          /\ Raised("onFailure") => last.val = Thrown(last.f, Error(last.self))
    /\ Called("recover") =>
          (Raised("recover") <=>
              /\ isFailure(heap, last.self)
              /\ ThrowsOn(last.f, Error(last.self))
              /\ ~Normalizes(Thrown(last.f, Error(last.self))))
    /\ Called("runCatching") =>
          (Raised("runCatching") <=>
              /\ Outcome(last.f, last.args).kind = "throw"
              /\ ~Normalizes(Outcome(last.f, last.args).val))
    /\ \A i \in 1..Len(tasks) :
          /\ tasks[i].promise.state = "rejected" => \E x \in Faults(i) : ~Normalizes(x)
          /\ Done(i) /\ tasks[i].calls # <<>> /\ (\E x \in Faults(i) : ~Normalizes(x))
                => tasks[i].promise.state = "rejected"

C8_Witness ==
    /\ Raised("onSuccess")
    /\ last.f = Throws(Str("plain string"))
    /\ last.val = Str("plain string")

(* C9, as claimed: recover(transform) on a Success returns the same instance
   and never calls transform; on a Failure it calls transform with the held
   error and returns a Success holding what transform returned, or a Failure
   of the normalized error when transform throws, and never raises. *)
C9_RecoverNeverRaises ==
    Called("recover") =>
        IF isSuccess(heap, last.self)
        THEN Returned("recover") /\ last.val = last.self /\ last.calls = <<>>
        ELSE LET c == Outcome(last.f, <<Error(last.self)>>)
             IN  /\ last.calls = << <<Error(last.self)>> >>
                 /\ Returned("recover")
                 /\ c.kind = "return" => SuccessOf(last.val, c.val)
                 /\ c.kind = "throw" => FailureOf(last.val, c.val)

(* C9, amended: recover(transform) on a Success returns the same instance and
   never calls transform; on a Failure it calls transform once with the held
   error and returns what runCatching makes of it: the Result transform
   returned if it returned one, a Success holding the returned value
   otherwise, a Failure of the normalized error when transform throws a value
   toError can turn into an error; it raises the TypeError of JSON.stringify
   when transform throws a self-referential object or a BigInt. *)
C9_RecoverThroughRunCatching ==
    Called("recover") =>
        IF isSuccess(heap, last.self)
        THEN Returned("recover") /\ last.val = last.self /\ last.calls = <<>>
        ELSE LET c == Outcome(last.f, <<Error(last.self)>>)
             IN  /\ last.calls = << <<Error(last.self)>> >>
                 /\ c.kind = "return" =>
                       Returned("recover") /\ Flattened(last.val, c.val)
                 /\ c.kind = "throw" => FaultOutcome(last.kind, last.val, c.val)

C9_Witness ==
    /\ Returned("recover")
    /\ isFailure(heap, last.self)
    /\ last.f = ThrowsArg
    /\ last.val # last.self
    /\ isFailure(heap, last.val)
    /\ Error(last.val) = Error(last.self)

\* the value the promise of task i has settled with
ResolvedWith(i) == tasks[i].promise.val

(* C10, as claimed: recoverAsync(transform) on a Success resolves to the same
   instance without calling transform; on a Failure it calls transform with
   the held error and resolves to a Success holding the transformed value, or
   to a Failure when transform throws or its promise rejects; its promise
   never rejects. *)
C10_RecoverAsyncNeverRejects ==
    \A i \in Tasks("recoverAsync") :
        /\ tasks[i].promise.state # "rejected"
        /\ IF isSuccess(heap, tasks[i].self)
           THEN /\ tasks[i].calls = <<>>
                /\ tasks[i].promise = Fulfilled(tasks[i].self)
           ELSE /\ tasks[i].calls = << <<Error(tasks[i].self)>> >>
                /\ Done(i) /\ Faults(i) = {} =>
                      SuccessOf(ResolvedWith(i), tasks[i].fate.val)
                /\ Done(i) /\ Faults(i) # {} =>
                      IsResult(ResolvedWith(i)) /\ isFailure(heap, ResolvedWith(i))

(* C10, amended: recoverAsync(transform) on a Success resolves to the same
   instance without calling transform; on a Failure it calls transform once
   with the held error and its promise follows runAsyncCatching: it resolves
   to the Result transform resolved to if that is one, to a Success holding
   the resolved value otherwise, to a Failure of the normalized error when
   transform throws or its promise rejects with a value toError can turn into
   an error; it rejects with the TypeError of JSON.stringify when that value
   is self-referential or a BigInt, and stays pending while the promise of
   transform does. *)
C10_RecoverAsyncThroughRunAsyncCatching ==
    \A i \in Tasks("recoverAsync") :
        /\ SettledOnce(i)
        /\ IF isSuccess(heap, tasks[i].self)
           THEN /\ tasks[i].calls = <<>>
                /\ tasks[i].promise = Fulfilled(tasks[i].self)
           ELSE /\ tasks[i].calls = << <<Error(tasks[i].self)>> >>
                /\ tasks[i].awaited.state = "pending" /\ Faults(i) = {} => ~Done(i)
                /\ Done(i) /\ Faults(i) = {} =>
                      /\ tasks[i].promise.state = "fulfilled"
                      /\ Flattened(ResolvedWith(i), tasks[i].fate.val)
                /\ Done(i) =>
                      \A x \in Faults(i) :
                          FaultOutcome(IF tasks[i].promise.state = "fulfilled"
                                       THEN "return" ELSE "throw",
                                       ResolvedWith(i), x)

C10_Witness ==
    \E i \in Tasks("recoverAsync") :
        /\ Done(i)
        /\ isFailure(heap, tasks[i].self)
        /\ tasks[i].f = RejectsArg
        /\ tasks[i].promise.state = "fulfilled"
        /\ ResolvedWith(i) # tasks[i].self
        /\ isFailure(heap, ResolvedWith(i))
        /\ Error(ResolvedWith(i)) = Error(tasks[i].self)

(* C11, as claimed: onSuccess(f) calls f exactly once with the held value on
   a Success and never on a Failure, onFailure(f) calls f exactly once with
   the held error on a Failure and never on a Success, and both always return
   the instance they were called on. *)
C11_AlwaysReturnsSelf ==
    /\ Called("onSuccess") =>
          /\ last.calls = (IF isSuccess(heap, last.self)
                           THEN << <<Value(last.self)>> >> ELSE <<>>)
          /\ Returned("onSuccess") /\ last.val = last.self
    /\ Called("onFailure") =>
          /\ last.calls = (IF isFailure(heap, last.self)
                           THEN << <<Error(last.self)>> >> ELSE <<>>)
          /\ Returned("onFailure") /\ last.val = last.self

(* C11, amended: onSuccess(f) calls f exactly once with the held value on a
   Success and never on a Failure, onFailure(f) calls f exactly once with the
   held error on a Failure and never on a Success; when the callback is not
   called or completes, both return the instance they were called on, and
   when the callback throws they return nothing and raise what it threw. *)
C11_ReturnsSelfUnlessCallbackThrows ==
    /\ Called("onSuccess") =>
          /\ last.calls = (IF isSuccess(heap, last.self)
                           THEN << <<Value(last.self)>> >> ELSE <<>>)
          /\ IF isSuccess(heap, last.self) /\ ThrowsOn(last.f, Value(last.self))
             THEN Raised("onSuccess") /\ last.val = Thrown(last.f, Value(last.self))
             ELSE Returned("onSuccess") /\ last.val = last.self
    /\ Called("onFailure") =>
          /\ last.calls = (IF isFailure(heap, last.self)
                           THEN << <<Error(last.self)>> >> ELSE <<>>)
          /\ IF isFailure(heap, last.self) /\ ThrowsOn(last.f, Error(last.self))
             THEN Raised("onFailure") /\ last.val = Thrown(last.f, Error(last.self))
             ELSE Returned("onFailure") /\ last.val = last.self

C11_Witness ==
    /\ Returned("onFailure")
    /\ isFailure(heap, last.self)
    /\ last.f = Returns(Num(42))
    /\ last.calls = << <<Error(last.self)>> >>
    /\ last.val = last.self

(* C12: on a Success getOrDefault(d) and getOrElse(transform) return the held
   value for every d, and transform is not called; on a Failure
   getOrDefault(d) returns d, and getOrElse(transform) calls transform once
   with the held error and ends as that call ends. *)
C12_Fallbacks ==
    /\ Called("getOrDefault") =>
          /\ Returned("getOrDefault")
          /\ last.calls = <<>>
          /\ last.val = (IF isSuccess(heap, last.self)
                         THEN Value(last.self) ELSE last.args[1])
    /\ Called("getOrElse") =>
          IF isSuccess(heap, last.self)
          THEN /\ Returned("getOrElse")
               /\ last.val = Value(last.self)
               /\ last.calls = <<>>
          ELSE LET c == Outcome(last.f, <<Error(last.self)>>)
               IN  /\ last.calls = << <<Error(last.self)>> >>
                   /\ last.kind = c.kind
                   /\ last.val = c.val

C12_Witness ==
    /\ Returned("getOrDefault")
    /\ isSuccess(heap, last.self)
    /\ Value(last.self) = Num(0)
    /\ last.args = <<Num(42)>>
    /\ last.val = Num(0)
    /\ \E r \in Results(heap) : isFailure(heap, r)

(* C13: a Result is immutable once constructed: no step of any operation
   (isSuccess, isFailure, getOrThrow, getOrDefault, getOrElse, onSuccess,
   onFailure, recover, recoverAsync, runCatching, runAsyncCatching) removes an
   existing Result or changes its value or its error. *)
C13_Immutable ==
    [][\A r \in Results(heap) :
          /\ r.n <= Len(heap')
          /\ heap'[r.n].cls = "Result"
          /\ heap'[r.n].value = heap[r.n].value
          /\ heap'[r.n].error = heap[r.n].error]_vars

C13_Witness ==
    /\ Returned("recover")
    /\ last.f = Returns(Num(42))
    /\ isFailure(heap, last.self)
    /\ last.val # last.self
    /\ SuccessOf(last.val, Num(42))

(* C14: constructing a Result with both a value and an error populated is
   rejected: for every populated value, the falsy 0, '' and false included,
   paired with any error, the constructor raises the misuse fault and builds
   no Result. *)
C14_RejectsBoth ==
    Called("new") /\ Populated(last.args[1]) /\ Populated(last.args[2]) =>
        /\ Raised("new")
        /\ IsError(last.val)
        /\ heap[last.val.n].message = MisuseMessage

\* the values the contract of toMessage names, and the text it gives each
Named(x) ==
    \/ x \in {Undefined, Null, NaN, Num(0), Num(42), Num(404), Bool(TRUE), Bool(FALSE)}
    \/ x.k = "string"
    \/ IsError(x)
    \/ x \in {Ref(1), Ref(2), Ref(5), Ref(6), Ref(8)}

Claimed(x) ==
    CASE x = Undefined -> "undefined"
      [] x \in {Null, NaN} -> "null"
      [] x.k = "string" -> x.s
      [] IsError(x) -> heap[x.n].message
      [] x = Num(0) -> "0"
      [] x = Num(42) -> "42"
      [] x = Num(404) -> "404"
      [] x = Bool(TRUE) -> "true"
      [] x = Bool(FALSE) -> "false"
      [] x = Ref(1) -> "{\"a\":1}"
      [] x = Ref(2) -> "[1,2,3]"
      [] x = Ref(5) -> "[]"
      [] x = Ref(6) -> "{\"code\":\"X\"}"
      [] x = Ref(8) ->
            "{\"a\":1,\"b\":\"string\",\"c\":{\"nested\":true},\"d\":[1,2,3]}"
      [] OTHER -> ""

\* getErrorMessage gives every value the contract names the text it names
NamedAsClaimed ==
    Called("getErrorMessage") /\ Named(last.args[1]) =>
        /\ Returned("getErrorMessage")
        /\ last.val = Str(Claimed(last.args[1]))

(* C15: getErrorMessage maps undefined to "undefined", null to "null", a
   string to itself, an error to its message, NaN to "null", and any other
   value to its compact JSON text with keys in insertion order (42 -> "42",
   true -> "true", {a:1} -> '{"a":1}', [1,2,3] -> "[1,2,3]", [] -> "[]");
   whenever it returns, what it returns is a string. *)
C15_AlwaysAString ==
    /\ NamedAsClaimed
    /\ Returned("getErrorMessage") => last.val.k = "string"

\* the error convertToError made of x in the call that has just come back
Made(val, x) ==
    /\ IsError(val)
    /\ val # x
    /\ val = Ref(Len(heap))

(* C16: convertToError returns the very instance it is given when that is an
   error; for every other value x it returns a new error whose message is
   getErrorMessage(x) (404 -> "404", null -> "null", undefined ->
   "undefined", {code:'X'} -> its JSON text). *)
C16_MessageIsToMessage ==
    Called("convertToError") =>
        LET x == last.args[1]
        IN  /\ IsError(x) => Returned("convertToError") /\ last.val = x
            /\ Returned("convertToError") /\ ~IsError(x) =>
                  /\ Made(last.val, x)
                  /\ getErrorMessage(heap, x).r = "string"
                  /\ heap[last.val.n].message = getErrorMessage(heap, x).s
                  /\ Named(x) => heap[last.val.n].message = Claimed(x)

\* the values JSON.stringify rejects: the self-referential object, the object
\* that holds it, and a BigInt
SelfReferential(x) == x \in {Ref(3), Ref(9)}
Unserializable(x) == SelfReferential(x) \/ x = BigInt

\* v is the TypeError JSON.stringify has just raised, with message m
RaisedTypeError(v, m) ==
    /\ last.kind = "throw"
    /\ IsError(v)
    /\ v = Ref(Len(heap))
    /\ heap[v.n].message = m

(* C17: getErrorMessage on a self-referential object raises the fault of the
   serializer and lets it through; convertToError on such a value fails the
   same way; and a fault of the serializer is the one fault that is raised
   instead of being captured into a Failure: runCatching around a function
   that throws x raises exactly when x cannot be serialized, and returns the
   Failure of x otherwise. *)
C17_SerializationFaultPropagates ==
    /\ last.op \in {"getErrorMessage", "convertToError"} =>
          LET x == last.args[1]
          IN  /\ SelfReferential(x) => RaisedTypeError(last.val, CircularMessage)
              /\ last.kind = "throw" <=> Unserializable(x)
    /\ Called("runCatching") /\ last.f.b = "throw" =>
          LET x == last.f.v
          IN  /\ SelfReferential(x) => RaisedTypeError(last.val, CircularMessage)
              /\ x = BigInt => RaisedTypeError(last.val, BigIntMessage)
              /\ ~Unserializable(x) => Returned("runCatching") /\ FailureOf(last.val, x)

C17_Witness ==
    /\ Raised("convertToError")
    /\ last.args = <<Ref(3)>>
    /\ RaisedTypeError(last.val, CircularMessage)
    /\ \E e \in Errors(heap) : heap[e.n].message = "[1,2,3]"

\* the calls of a method of DynamoDB that are in flight or just settled
Ops(name) == {i \in 1..Len(ops) : ops[i].op = name}

\* the call i has settled after the client carried out / failed its command
Succeeded(i) == ops[i].pc = "done" /\ ops[i].response.ok
Failed(i) == ops[i].pc = "done" /\ ~ops[i].response.ok

(* C18: get(key) sends exactly one Get command, addressed to the configured
   table and to key; it resolves to the string stored under key when an item
   exists under key, whatever that string is, and to null when none does. *)
C18_GetStoredOrNull ==
    \A i \in Ops("get") :
        LET item == ops[i].response.Item
        IN  /\ ops[i].sent = <<GetCommand(TableName, ops[i].key)>>
            /\ Len(ops) = 1 /\ ops[i].response.ok => item = table[ops[i].key]
            /\ Succeeded(i) =>
                  ops[i].promise =
                      Fulfilled(IF item # NoItem THEN item.value ELSE Null)

(* C19: put(key, value, options) sends exactly one Put command to the
   configured table; its item is {key, value} without expiresAt when no
   expirationTtl is supplied, and {key, value, expiresAt} with expiresAt =
   floor(now / 1000) + expirationTtl for every number supplied as
   expirationTtl, zero included. *)
C19_PutItem ==
    \A i \in Ops("put") :
        LET o == ops[i]
            ttl == o.options.expirationTtl
            item == o.sent[1].Item
        IN  /\ Len(o.sent) = 1
            /\ o.sent[1].name = "Put"
            /\ o.sent[1].TableName = TableName
            /\ item.key = Str(o.key)
            /\ item.value = Str(o.value)
            /\ item.expiresAt =
                  (IF o.options.given /\ ttl.k = "number"
                   THEN Num((o.now \div 1000) + ttl.n) ELSE Undefined)

(* C20: when the client fails, get, put and delete each reject with the very
   error the client rejected with, after a single send: at every moment a
   call has sent exactly one command, the one of its method, and its promise
   rejects exactly when the client failed. *)
C20_RejectsWithClientError ==
    \A i \in 1..Len(ops) :
        LET o == ops[i]
        IN  /\ Len(o.sent) = 1
            /\ o.sent[1].name = (CASE o.op = "get" -> "Get"
                                    [] o.op = "put" -> "Put"
                                    [] OTHER -> "Delete")
            /\ o.sent[1].TableName = TableName
            /\ Failed(i) =>
                  /\ IsError(o.response.error)
                  /\ o.promise = Rejected(o.response.error)
                  /\ o.settles = 1
                  /\ o.logged = <<o.response.error>>
            /\ o.promise.state = "rejected" => Failed(i)
            /\ Succeeded(i) => o.promise.state = "fulfilled" /\ o.settles = 1

C20_Witness ==
    \E i \in Ops("delete") :
        /\ Failed(i)
        /\ ops[i].response = Fault(Ref(2))
        /\ ops[i].promise = Rejected(Ref(2))
        /\ \E k \in Keys : table[k] # NoItem

-----------------------------------------------------------------------------
\* the promise of call i is settled with the outcome of its own callback
OwnOutcome(i) ==
    /\ tasks[i].fate.state = "fulfilled" =>
          /\ tasks[i].promise.state = "fulfilled"
          /\ Flattened(tasks[i].promise.val, tasks[i].fate.val)
    /\ \A x \in Faults(i) :
          FaultOutcome(IF tasks[i].promise.state = "fulfilled" THEN "return" ELSE "throw",
                       tasks[i].promise.val, x)

(* C21, as claimed: of two calls of runAsyncCatching in flight together,
   each resolves to the Result of its own callback's outcome, however the
   other call settles. *)
C21_ResolvesToOwnResult ==
    \A i \in Tasks("runAsyncCatching") :
        Done(i) => /\ tasks[i].promise.state = "fulfilled"
                   /\ IsResult(tasks[i].promise.val)
                   /\ OwnOutcome(i)

\* every call in flight is where its own callback has brought it, whatever
\* the other calls have done
C21_OwnOutcome ==
    \A i \in Tasks("runAsyncCatching") :
        /\ Len(tasks[i].calls) = 1
        /\ tasks[i].pc \in {"awaiting", "queued"} => tasks[i].promise.state = "pending"
        /\ tasks[i].pc = "awaiting" => tasks[i].awaited.state = "pending"
        /\ tasks[i].pc = "queued" => tasks[i].awaited = tasks[i].fate
        /\ Done(i) => /\ tasks[i].promise.state # "pending"
                      /\ OwnOutcome(i)
                      /\ tasks[i].promise.state = "rejected" <=>
                            \E x \in Faults(i) : ~Normalizes(x)

\* a call is settled only when no other call's awaited promise settled
\* before its own, and settling it leaves the other calls as they are
C21_SettleOrder ==
    \A i \in 1..Len(tasks) :
        Len(tasks') = Len(tasks) /\ tasks[i].pc = "queued" /\ tasks'[i].pc = "done" =>
            /\ \A j \in Queued(tasks) : tasks[i].turn <= tasks[j].turn
            /\ \A j \in 1..Len(tasks) \ {i} :
                  /\ tasks'[j].pc = tasks[j].pc
                  /\ tasks'[j].promise = tasks[j].promise
                  /\ tasks'[j].fate = tasks[j].fate

(* C21, amended: calls of runAsyncCatching in flight together are not
   ordered by the core: they settle in the order in which the promises of
   their callbacks settle, whichever call was made first, and each call
   settles with the outcome of its own callback however the other one
   settles: it resolves to the Result of that outcome, and it rejects with
   the TypeError of JSON.stringify when its callback throws or rejects with
   a self-referential value or a BigInt. *)
C21_Independent == []C21_OwnOutcome /\ [][C21_SettleOrder]_vars

\* the call made second has resolved to a Success of its own value while
\* the promise of the first call's callback, which will reject, is unsettled
C21_Witness ==
    /\ Len(tasks) = 2
    /\ tasks[1].f = Rejects(Ref(4))
    /\ tasks[1].pc = "awaiting"
    /\ tasks[2].f = Resolves(Num(42))
    /\ Done(2)
    /\ tasks[2].promise.state = "fulfilled"
    /\ SuccessOf(tasks[2].promise.val, Num(42))

-----------------------------------------------------------------------------
\* call i exists and the promise of its callback has settled
Settled(i) == i <= Len(tasks) /\ tasks[i].pc = "queued"

\* call i exists and its promise is fulfilled with a Result
Resolved(i) ==
    /\ i <= Len(tasks)
    /\ tasks[i].promise.state = "fulfilled"
    /\ IsResult(tasks[i].promise.val)

(* C22, as claimed: runAsyncCatching invokes its callback exactly once, its
   promise is not resolved before the promise of the callback has settled
   and stays pending when that promise never settles, and once that promise
   has settled, by resolving or by rejecting, the promise of runAsyncCatching
   eventually resolves. *)
C22_EventuallyResolves ==
    \A i \in 1..MaxConcurrent : Settled(i) ~> Resolved(i)

\* the callback has been invoked once, with the arguments of the call, and
\* the promise of the call is pending until the promise of the callback has
\* settled, for good when that one never settles
C22_PendingUntilSettled ==
    \A i \in Tasks("runAsyncCatching") :
        /\ tasks[i].calls = <<tasks[i].args>>
        /\ tasks[i].settles <= 1
        /\ tasks[i].pc \in {"awaiting", "queued"} =>
              /\ tasks[i].promise.state = "pending"
              /\ tasks[i].settles = 0
        /\ tasks[i].fate.state = "pending" /\ ~ThrowsSynchronously(tasks[i].f) =>
              /\ tasks[i].pc = "awaiting"
              /\ tasks[i].promise.state = "pending"

\* call i exists and its promise has settled with the outcome of its callback
SettledWithOutcome(i) ==
    /\ i <= Len(tasks)
    /\ Done(i)
    /\ tasks[i].settles = 1
    /\ tasks[i].promise.state # "pending"
    /\ tasks[i].promise.state = "rejected" <=> \E x \in Faults(i) : ~Normalizes(x)
    /\ tasks[i].promise.state = "fulfilled" => IsResult(tasks[i].promise.val)

(* C22, amended: runAsyncCatching invokes its callback exactly once, its
   promise is never settled before the promise of the callback has settled
   and stays pending when that promise never settles, and once that promise
   has settled, by resolving or by rejecting, the promise of runAsyncCatching
   eventually settles: it resolves to a Result, except that it rejects when
   the callback's promise rejected with a value toError cannot turn into an
   error (self-referential or a BigInt). *)
C22_EventuallySettles ==
    /\ []C22_PendingUntilSettled
    /\ \A i \in 1..MaxConcurrent : Settled(i) ~> SettledWithOutcome(i)

\* the promise of the second call's callback rejected and the call has
\* resolved to a Failure, while the callback of the first call never settles
\* and the first call is pending
C22_Witness ==
    /\ Len(tasks) = 2
    /\ tasks[1].f = NeverSettles
    /\ tasks[1].promise.state = "pending"
    /\ tasks[2].f = Rejects(Ref(4))
    /\ tasks[2].awaited = Rejected(Ref(4))
    /\ Resolved(2)
    /\ isFailure(heap, tasks[2].promise.val)

-----------------------------------------------------------------------------
(* C23: runCatching(f, ...args).getOrThrow() behaves as the call of f itself
   when f returns a value that is no Result, or throws an error: it returns
   the value f returned, the falsy ones included, it raises the very
   instance f threw, and f has been invoked exactly once, with the arguments
   supplied. *)
C23_RoundTrip ==
    Called("runCatching.getOrThrow") =>
        LET o == Outcome(last.f, last.args)
        IN  /\ last.calls = <<last.args>>
            /\ o.kind = "return" /\ ~IsResult(o.val) =>
                  /\ last.kind = "return"
                  /\ last.val = o.val
            /\ o.kind = "throw" /\ IsError(o.val) =>
                  /\ last.kind = "throw"
                  /\ last.val = o.val

\* the callback threw an error, the expression has raised that instance, and
\* the one object made on the way is the Failure that held it
C23_Witness ==
    /\ Raised("runCatching.getOrThrow")
    /\ last.f = Throws(Ref(4))
    /\ last.calls = <<<<>>>>
    /\ last.val = Ref(4)
    /\ Len(heap) = Len(InitHeap) + 1

-----------------------------------------------------------------------------
\* the item the table holds under the key of call i
Held(i) == table[ops[i].key]

(* C24: when put(k, v) has completed successfully the table holds v under
   k, for every string v and the empty one too, and when delete(k) has
   completed it holds nothing under k; get(k), made when no other call is
   in flight, resolves to the v the table holds under k, and to null when it
   holds nothing. *)
C24_RoundTrip ==
    \A i \in 1..Len(ops) :
        Len(ops) = 1 /\ Succeeded(i) =>
            /\ ops[i].op = "put" =>
                  /\ ops[i].promise = Fulfilled(Undefined)
                  /\ Held(i) # NoItem
                  /\ Held(i).value = Str(ops[i].value)
            /\ ops[i].op = "delete" =>
                  /\ ops[i].promise = Fulfilled(Undefined)
                  /\ Held(i) = NoItem
            /\ ops[i].op = "get" =>
                  ops[i].promise =
                      Fulfilled(IF Held(i) # NoItem THEN Held(i).value ELSE Null)

====
